---- MODULE Spec2Model ----
(***************************************************************************)
(* Model of src/app.py: the Flask handler index(), the destination probe   *)
(* check_destination_account() and the pipeline transfer_account().        *)
(*                                                                         *)
(* Strings the code inspects (the username, the output of the two remote   *)
(* lookups, the download URL) are sequences of one-character strings.      *)
(* The output of the restore process is a byte stream; the code only       *)
(* concatenates it, so it is modelled by the number of bytes emitted and   *)
(* the number of bytes appended to progress_output (always a prefix).      *)
(***************************************************************************)
EXTENDS Integers, Sequences, FiniteSets, TLC

VARIABLES
    pc,               \* position of the single worker that serves the request
    source_host,      \* request.form "source_host"
    username,         \* request.form "username"
    domain,           \* request.form "domain"
    destination_host, \* request.form "destination_host"
    overwrite,        \* request.form "overwrite" == "on"
    result_username,  \* local of check_destination_account
    result_domain,    \* local of check_destination_account
    conflict_status,  \* value returned by check_destination_account
    check_ssh,        \* SSH client of check_destination_account
    xfer_ssh,         \* SSH client of transfer_account
    elapsed,          \* local of transfer_account
    download_url,     \* local of transfer_account (<<>> is None / "")
    local_file,       \* /home/<filename> on the machine running the app
    remote_file,      \* the uploaded file on the destination
    proc,             \* remote restore process: "none", "running", "exited"
    proc_exit,        \* exit code of the remote restore process
    emitted,          \* bytes the restore process has written to the channel
    emits,            \* number of writes of the restore process
    progress_output,  \* bytes appended to progress_output
    exit_status,      \* local of transfer_account (-1: not read)
    result,           \* (success, progress) returned by transfer_account
    response,         \* what index() answers
    pipelineCalls,    \* calls of transfer_account
    triggerCalls,     \* GETs of the backup API before the polling loop
    poll_seen,        \* outcomes of the polls that let the loop continue
    downloadCalls,    \* GETs of the download URL
    uploadCalls,      \* calls of sftp.put
    restoreCalls,     \* calls of channel.exec_command(restore_cmd)
    sshConnects,      \* calls of ssh.connect (both functions)
    lookup_failed,    \* a lookup command ended with an error on the remote side
    trigger_status,   \* trigger_resp.status_code (0: no response)
    xfer_op,          \* the last remote operation transfer_account issued
    exc_stage         \* the stage in which transfer_account caught an exception

vars == <<pc, source_host, username, domain, destination_host, overwrite,
          result_username, result_domain, conflict_status, check_ssh, xfer_ssh, elapsed,
          download_url, local_file, remote_file, proc, proc_exit, emitted,
          emits, progress_output, exit_status, result, response,
          pipelineCalls, triggerCalls, poll_seen, downloadCalls, uploadCalls,
          restoreCalls, sshConnects, lookup_failed, trigger_status, xfer_op,
          exc_stage>>

reqVars == <<source_host, username, domain, destination_host, overwrite>>
chkVars == <<result_username, result_domain, conflict_status, check_ssh,
             lookup_failed>>
pollVars == <<trigger_status, elapsed, download_url, poll_seen>>
fileVars == <<local_file, remote_file>>
procVars == <<proc, proc_exit, emitted, emits>>
loopVars == <<progress_output, exit_status>>
outVars == <<result, response, exc_stage>>
callVars == <<pipelineCalls, triggerCalls, downloadCalls, uploadCalls,
              restoreCalls, sshConnects, xfer_op>>

----------------------------------------------------------------------------
(* Bounds of the model *)

\* longest string drawn for the username and the lookup outputs in SpecResolve
MaxLen == 2
\* number of writes the remote restore process makes before it exits
MaxEmits == 2
\* number of requests served at the same time in SpecConcurrent
NumReqs == 2

(* Program constants *)

timeout == 600
interval == 10
RecvSize == 1024
HttpOk == 200

----------------------------------------------------------------------------
(* Strings *)

Alphabet == {"a", "b", " "}
Whitespace == {" "}

Strs(n) == UNION {[1..k -> Alphabet] : k \in 0..n}

\* Python: sub in s
Contains(sub, s) ==
    \E i \in 0..(Len(s) - Len(sub)) : SubSeq(s, i + 1, i + Len(sub)) = sub

RECURSIVE LStrip(_)
LStrip(s) == IF s # <<>> /\ Head(s) \in Whitespace THEN LStrip(Tail(s)) ELSE s

RECURSIVE RStrip(_)
RStrip(s) ==
    IF s # <<>> /\ s[Len(s)] \in Whitespace
    THEN RStrip(SubSeq(s, 1, Len(s) - 1))
    ELSE s

\* Python: s.strip()
Strip(s) == RStrip(LStrip(s))

\* index of the last "/" of s, 0 when there is none
RECURSIVE RFindSlash(_, _)
RFindSlash(s, i) ==
    IF i = 0 THEN 0 ELSE IF s[i] = "/" THEN i ELSE RFindSlash(s, i - 1)

\* Python: os.path.basename(p)
Basename(p) == SubSeq(p, RFindSlash(p, Len(p)) + 1, Len(p))

Min(a, b) == IF a < b THEN a ELSE b

----------------------------------------------------------------------------
(* Inputs of the environment *)

\* form fields of a POST
Usernames == {<<>>, <<"a">>}
Domains == {<<>>, <<"b">>}
Hosts == {<<>>, <<"h">>}

\* raw stdout of "/scripts/whoowns <username>"
WhoownsOutputs == {<<>>, <<" ">>, <<"a", " ">>}
\* raw stdout of "grep -R '<domain>' /var/cpanel/users"
GrepOutputs == {<<>>, <<"a", " ", "b">>, <<"b", " ">>}

\* data.download_url of a poll response; <<>> is a missing or empty value
Urls == {<<"s", "/", "f">>, <<"s", "/">>}

\* status codes of the responses of the source server
HttpStatuses == {HttpOk, 500}

\* str(e) of a caught exception
ExcTexts == {"", "timed out"}

\* sizes of one write of the restore process, in bytes
EmitSizes == {1, RecvSize + 1}

ExitCodes == {0, 1}

----------------------------------------------------------------------------
(* Values returned by transfer_account *)

Literal(t) == [kind |-> "literal", text |-> t, n |-> 0]
Captured(n) == [kind |-> "progress_output", text |-> "", n |-> n]
ExceptionText(e) == [kind |-> "exception", text |-> e, n |-> 0]
NoResult == [success |-> FALSE, progress |-> [kind |-> "none", text |-> "", n |-> 0]]

\* length of the transcript string, as far as emptiness is concerned
TranscriptNonEmpty(p) ==
    \/ p.kind = "literal" /\ p.text # ""
    \/ p.kind = "exception"      \* "Exception occurred: " + str(e)
    \/ p.kind = "progress_output" /\ p.n > 0

----------------------------------------------------------------------------
(* check_destination_account: the classification of lines 53-61 *)

\* a classification that looks at the domain record first
check_result_domain_first(ru, rd, u) ==
    IF rd # <<>> /\ ru = <<>> THEN "domain_conflict"
    ELSE IF rd # <<>> THEN "overwrite_allowed"
    ELSE "no_conflict"

check_result(ru, rd, u) ==
    IF ru # <<>> /\ rd # <<>>
    THEN IF Contains(u, rd) THEN "overwrite_allowed" ELSE "username_conflict"
    ELSE IF rd # <<>> THEN "domain_conflict"
    ELSE "no_conflict"

(* index: the branches of lines 198-206 that answer without a transfer *)

\* a gate without the username_conflict branch
BlocksWithoutUsernameBranch(status, ow) ==
    \/ status = "connection_error"
    \/ status = "overwrite_allowed" /\ ~ow

\* a gate that does not read the overwrite box
BlocksIgnoringOverwrite(status, ow) ==
    \/ status = "connection_error"
    \/ status = "username_conflict"
    \/ status = "overwrite_allowed"

\* a gate without the connection_error branch
BlocksWithoutConnectionBranch(status, ow) ==
    \/ status = "username_conflict"
    \/ status = "overwrite_allowed" /\ ~ow

Blocks(status, ow) ==
    \/ status = "connection_error"
    \/ status = "username_conflict"
    \/ status = "overwrite_allowed" /\ ~ow

BlockedResponse(status) ==
    IF status = "connection_error" THEN "flash_connection_error"
    ELSE IF status = "username_conflict" THEN "flash_username_conflict"
    ELSE "flash_overwrite_warning"

(* transfer_account: the strings it builds and the operations it issues *)

\* a URL that names the account that was checked
backup_api_url_of_account(sh) ==
    <<"https://">> \o sh \o <<":2083/execute/Backup/fullbackup?user=">>
        \o username

\* line 83
backup_api_url(sh) ==
    <<"https://">> \o sh \o <<":2083/execute/Backup/fullbackup?api.version=1">>

\* lines 119-120
backup_local_path(url) == <<"/home/">> \o Basename(url)

\* line 139
remote_backup_path(url) == backup_local_path(url)

\* line 145
restore_cmd(path) == <<"/scripts/restorepkg ">> \o path

NoOp == [op |-> "none", arg |-> <<>>]
Op(o, a) == [op |-> o, arg |-> a]

(* transfer_account: lines 86 and 113 *)

\* a pipeline that goes on after a rejected trigger
TriggerFatalNever(status) == FALSE

TriggerFatal(status) == status # HttpOk

\* a pipeline that does not test download_url after the loop
NoDownloadUrlNever(url) == FALSE

NoDownloadUrl(url) == url = <<>>

(* transfer_account: line 166 *)

\* a pipeline that does not look at the exit status
RestoreSucceededAlways(status) == TRUE

RestoreSucceeded(status) == status = 0

(* transfer_account: the progress returned at lines 168 and 170 *)

\* a pipeline that drops the transcript
RestoreTranscriptDropped(po) == Captured(0)

RestoreTranscript(po) == Captured(po)

----------------------------------------------------------------------------
Init ==
    /\ pc = "idle"
    /\ source_host = <<>>
    /\ username = <<>>
    /\ domain = <<>>
    /\ destination_host = <<>>
    /\ overwrite = FALSE
    /\ result_username = <<>>
    /\ result_domain = <<>>
    /\ conflict_status = "none"
    /\ check_ssh = "none"
    /\ xfer_ssh = "none"
    /\ elapsed = 0
    /\ download_url = <<>>
    /\ local_file = "absent"
    /\ remote_file = "absent"
    /\ proc = "none"
    /\ proc_exit = -1
    /\ emitted = 0
    /\ emits = 0
    /\ progress_output = 0
    /\ exit_status = -1
    /\ result = NoResult
    /\ response = "none"
    /\ pipelineCalls = 0
    /\ triggerCalls = 0
    /\ poll_seen = {}
    /\ downloadCalls = 0
    /\ uploadCalls = 0
    /\ restoreCalls = 0
    /\ sshConnects = 0
    /\ lookup_failed = FALSE
    /\ trigger_status = 0
    /\ xfer_op = NoOp
    /\ exc_stage = "none"

----------------------------------------------------------------------------
(* index *)

\* a GET renders the form
IndexGet ==
    /\ pc = "idle"
    /\ pc' = "done"
    /\ response' = "index_page"
    /\ UNCHANGED <<reqVars, chkVars, xfer_ssh, pollVars, fileVars, procVars,
                   loopVars, result, exc_stage, callVars>>

\* a POST: the form fields are read and check_destination_account is entered
IndexPost ==
    /\ pc = "idle"
    /\ \E s \in Hosts, u \in Usernames, d \in Domains, h \in Hosts,
          o \in BOOLEAN :
          /\ source_host' = s
          /\ username' = u
          /\ domain' = d
          /\ destination_host' = h
          /\ overwrite' = o
    /\ pc' = "chk_connect"
    /\ UNCHANGED <<chkVars, xfer_ssh, pollVars, fileVars, procVars, loopVars,
                   outVars, callVars>>

----------------------------------------------------------------------------
(* check_destination_account *)

\* the except clause of lines 63-66; the SSH client is left as it is
ChkExcept ==
    /\ conflict_status' = "connection_error"
    /\ result_username' = <<>>
    /\ result_domain' = <<>>
    /\ pc' = "idx_gate"
    /\ UNCHANGED lookup_failed

\* ssh.connect, line 37
ChkConnect ==
    /\ pc = "chk_connect"
    /\ sshConnects' = sshConnects + 1
    /\ \/ /\ check_ssh' = "open"
          /\ pc' = "chk_whoowns"
          /\ UNCHANGED <<result_username, result_domain, conflict_status,
                         lookup_failed>>
       \/ /\ ChkExcept
          /\ UNCHANGED check_ssh
    /\ UNCHANGED <<reqVars, xfer_ssh, pollVars, fileVars, procVars, loopVars,
                   outVars, pipelineCalls, triggerCalls, downloadCalls,
                   uploadCalls, restoreCalls, xfer_op>>

\* the username lookup, lines 40-43.  Only stdout is read: a command that
\* fails on the destination (non-zero exit status, a message on stderr)
\* yields its stdout, which is empty, like a command that finds nothing.
ChkWhoowns(outputs) ==
    /\ pc = "chk_whoowns"
    /\ \/ \E raw \in outputs :
             /\ result_username' = Strip(raw)
             /\ pc' = "chk_grep"
             /\ UNCHANGED <<result_domain, conflict_status, lookup_failed>>
       \/ \* the command fails on the destination
          /\ result_username' = Strip(<<>>)
          /\ lookup_failed' = TRUE
          /\ pc' = "chk_grep"
          /\ UNCHANGED <<result_domain, conflict_status>>
       \/ \* exec_command or read raises
          ChkExcept
    /\ UNCHANGED <<reqVars, check_ssh, xfer_ssh, pollVars, fileVars, procVars,
                   loopVars, outVars, callVars>>

\* the domain lookup, lines 46-49
ChkGrep(outputs) ==
    /\ pc = "chk_grep"
    /\ \/ \E raw \in outputs :
             /\ result_domain' = Strip(raw)
             /\ pc' = "chk_close"
             /\ UNCHANGED <<result_username, conflict_status, lookup_failed>>
       \/ \* the command fails on the destination
          /\ result_domain' = Strip(<<>>)
          /\ lookup_failed' = TRUE
          /\ pc' = "chk_close"
          /\ UNCHANGED <<result_username, conflict_status>>
       \/ \* exec_command or read raises
          ChkExcept
    /\ UNCHANGED <<reqVars, check_ssh, xfer_ssh, pollVars, fileVars, procVars,
                   loopVars, outVars, callVars>>

\* ssh.close() and the classification, lines 51-61
ChkClose ==
    /\ pc = "chk_close"
    /\ check_ssh' = "closed"
    /\ conflict_status' = check_result(result_username, result_domain, username)
    /\ pc' = "idx_gate"
    /\ UNCHANGED <<reqVars, result_username, result_domain, lookup_failed,
                   xfer_ssh, pollVars, fileVars, procVars, loopVars, outVars,
                   callVars>>

----------------------------------------------------------------------------
(* index, lines 198-217 *)

IdxGate ==
    /\ pc = "idx_gate"
    /\ IF Blocks(conflict_status, overwrite)
       THEN /\ response' = BlockedResponse(conflict_status)
            /\ pc' = "done"
            /\ UNCHANGED pipelineCalls
       ELSE /\ pipelineCalls' = pipelineCalls + 1
            /\ pc' = "x_trigger"
            /\ UNCHANGED response
    /\ UNCHANGED <<reqVars, chkVars, xfer_ssh, pollVars, fileVars, procVars,
                   loopVars, result, exc_stage, triggerCalls, downloadCalls,
                   uploadCalls, restoreCalls, sshConnects, xfer_op>>

\* transfer_account returns (s, p) and index answers, lines 213-217
Return(s, p) ==
    /\ result' = [success |-> s, progress |-> p]
    /\ response' = IF s THEN "progress_page" ELSE "flash_transfer_failed"
    /\ pc' = "done"
    /\ UNCHANGED exc_stage

\* the except clause of transfer_account, lines 172-175, entered from `stage`
XferExcept(stage) ==
    /\ \E e \in ExcTexts : result' = [success |-> FALSE,
                                      progress |-> ExceptionText(e)]
    /\ response' = "flash_transfer_failed"
    /\ pc' = "done"
    /\ exc_stage' = stage

----------------------------------------------------------------------------
(* transfer_account *)

\* Step 1, lines 83-89, and the loop's initialisation, lines 93-96
XTrigger ==
    /\ pc = "x_trigger"
    /\ triggerCalls' = triggerCalls + 1
    /\ xfer_op' = Op("GET", backup_api_url(source_host))
    /\ \/ \* requests.get raises
          /\ XferExcept("trigger")
          /\ UNCHANGED pollVars
       \/ \E status \in HttpStatuses :
             /\ trigger_status' = status
             /\ IF TriggerFatal(status)
                THEN /\ Return(FALSE,
                          Literal("Failed to trigger backup on source server."))
                     /\ UNCHANGED <<elapsed, download_url, poll_seen>>
                ELSE /\ pc' = "x_poll"
                     /\ elapsed' = 0
                     /\ download_url' = <<>>
                     /\ poll_seen' = {}
                     /\ UNCHANGED outVars
    /\ UNCHANGED <<reqVars, chkVars, xfer_ssh, fileVars, procVars, loopVars,
                   pipelineCalls, downloadCalls, uploadCalls, restoreCalls,
                   sshConnects>>

\* one iteration of the polling loop, lines 98-112
XPoll ==
    /\ pc = "x_poll"
    /\ elapsed < timeout
    /\ xfer_op' = Op("GET", backup_api_url(source_host))
    /\ UNCHANGED trigger_status
    /\ \/ \* requests.get or poll_resp.json() raises
          /\ elapsed' = elapsed + interval
          /\ poll_seen' = poll_seen \cup {"raised"}
          /\ XferExcept("poll")
          /\ UNCHANGED download_url
       \/ \* status_code != 200: continue
          /\ elapsed' = elapsed + interval
          /\ poll_seen' = poll_seen \cup {"non200"}
          /\ UNCHANGED <<pc, download_url, outVars>>
       \/ \* no download_url yet
          /\ elapsed' = elapsed + interval
          /\ poll_seen' = poll_seen \cup {"not_ready"}
          /\ UNCHANGED <<pc, download_url, outVars>>
       \/ \* a download_url: break
          /\ elapsed' = elapsed + interval
          /\ \E url \in Urls : download_url' = url
          /\ pc' = "x_poll_done"
          /\ UNCHANGED <<poll_seen, outVars>>
    /\ UNCHANGED <<reqVars, chkVars, xfer_ssh, fileVars, procVars, loopVars,
                   pipelineCalls, triggerCalls, downloadCalls, uploadCalls,
                   restoreCalls, sshConnects>>

\* the loop condition fails, line 98
XPollExit ==
    /\ pc = "x_poll"
    /\ ~(elapsed < timeout)
    /\ pc' = "x_poll_done"
    /\ UNCHANGED <<reqVars, chkVars, xfer_ssh, pollVars, fileVars, procVars,
                   loopVars, outVars, callVars>>

\* after the loop, lines 113-115.  elapsed is not read again: it is cleared
\* when the pipeline goes on, so that the later stages are explored once.
XPollDone ==
    /\ pc = "x_poll_done"
    /\ IF NoDownloadUrl(download_url)
       THEN /\ Return(FALSE, Literal("Backup file was not ready in time."))
            /\ UNCHANGED elapsed
       ELSE /\ pc' = "x_download"
            /\ elapsed' = 0
            /\ UNCHANGED outVars
    /\ UNCHANGED <<reqVars, chkVars, xfer_ssh, trigger_status, download_url,
                   poll_seen, fileVars, procVars, loopVars, callVars>>

\* Step 3, lines 119-130
XDownload ==
    /\ pc = "x_download"
    /\ downloadCalls' = downloadCalls + 1
    /\ xfer_op' = Op("GET", download_url)
    /\ \/ \* requests.get raises, or open() fails
          /\ XferExcept("download")
          /\ UNCHANGED local_file
       \/ /\ Return(FALSE, Literal("Failed to download backup file."))
          /\ UNCHANGED local_file
       \/ \* the file is created and a write or a read of the body raises
          /\ Basename(download_url) # <<>>
          /\ local_file' = "partial"
          /\ XferExcept("download")
       \/ /\ Basename(download_url) # <<>>
          /\ local_file' = "complete"
          /\ pc' = "x_connect"
          /\ UNCHANGED outVars
    /\ UNCHANGED <<reqVars, chkVars, xfer_ssh, pollVars, remote_file, procVars,
                   loopVars, pipelineCalls, triggerCalls, uploadCalls,
                   restoreCalls, sshConnects>>

\* ssh.connect, lines 134-136
XConnect ==
    /\ pc = "x_connect"
    /\ sshConnects' = sshConnects + 1
    /\ xfer_op' = Op("connect", destination_host)
    /\ \/ /\ XferExcept("upload")
          /\ UNCHANGED xfer_ssh
       \/ /\ xfer_ssh' = "open"
          /\ pc' = "x_sftp"
          /\ UNCHANGED outVars
    /\ UNCHANGED <<reqVars, chkVars, pollVars, fileVars, procVars, loopVars,
                   pipelineCalls, triggerCalls, downloadCalls, uploadCalls,
                   restoreCalls>>

\* ssh.open_sftp, line 137
XSftp ==
    /\ pc = "x_sftp"
    /\ \/ XferExcept("upload")
       \/ /\ pc' = "x_put"
          /\ UNCHANGED outVars
    /\ UNCHANGED <<reqVars, chkVars, xfer_ssh, pollVars, fileVars, procVars,
                   loopVars, callVars>>

\* sftp.put and sftp.close, lines 139-142
XPut ==
    /\ pc = "x_put"
    /\ uploadCalls' = uploadCalls + 1
    /\ xfer_op' = Op("put", remote_backup_path(download_url))
    /\ \/ /\ \E f \in {"absent", "partial"} : remote_file' = f
          /\ XferExcept("upload")
       \/ /\ remote_file' = "complete"
          /\ pc' = "x_exec"
          /\ UNCHANGED outVars
    /\ UNCHANGED <<reqVars, chkVars, xfer_ssh, pollVars, local_file, procVars,
                   loopVars, pipelineCalls, triggerCalls, downloadCalls,
                   restoreCalls, sshConnects>>

\* the restore command is started, lines 145-152
XExec ==
    /\ pc = "x_exec"
    /\ \/ \* open_session, get_pty or exec_command raises
          /\ XferExcept("restore")
          /\ UNCHANGED <<proc, restoreCalls, progress_output, xfer_op>>
       \/ /\ restoreCalls' = restoreCalls + 1
          /\ xfer_op' = Op("exec", restore_cmd(remote_backup_path(download_url)))
          /\ proc' = "running"
          /\ progress_output' = 0
          /\ pc' = "x_recv"
          /\ UNCHANGED outVars
    /\ UNCHANGED <<reqVars, chkVars, xfer_ssh, pollVars, fileVars, proc_exit,
                   emitted, emits, exit_status, pipelineCalls, triggerCalls,
                   downloadCalls, uploadCalls, sshConnects>>

\* bytes recv(RecvSize) returns when `pending` bytes are buffered
RecvLen(pending) == Min(RecvSize, pending)

\* lines 155-158
XRecv ==
    /\ pc = "x_recv"
    /\ IF emitted - progress_output > 0
       THEN \/ /\ progress_output' =
                     progress_output + RecvLen(emitted - progress_output)
               /\ pc' = "x_exit_ready"
               /\ UNCHANGED outVars
            \/ \* recv or decode raises
               /\ XferExcept("restore")
               /\ UNCHANGED progress_output
       ELSE /\ pc' = "x_exit_ready"
            /\ UNCHANGED <<progress_output, outVars>>
    /\ UNCHANGED <<reqVars, chkVars, xfer_ssh, pollVars, fileVars, procVars,
                   exit_status, callVars>>

\* lines 159-161
XExitReady ==
    /\ pc = "x_exit_ready"
    /\ pc' = IF proc = "exited" THEN "x_exit_status" ELSE "x_recv"
    /\ UNCHANGED <<reqVars, chkVars, xfer_ssh, pollVars, fileVars, procVars,
                   loopVars, outVars, callVars>>

\* lines 163-170
XExitStatus ==
    /\ pc = "x_exit_status"
    /\ exit_status' = proc_exit
    /\ xfer_ssh' = "closed"
    /\ Return(RestoreSucceeded(proc_exit), RestoreTranscript(progress_output))
    /\ UNCHANGED <<reqVars, chkVars, pollVars, fileVars, procVars,
                   progress_output, callVars>>

----------------------------------------------------------------------------
(* the remote restore process *)

ProcEmit ==
    /\ proc = "running"
    /\ emits < MaxEmits
    /\ \E n \in EmitSizes : emitted' = emitted + n
    /\ emits' = emits + 1
    /\ UNCHANGED <<pc, reqVars, chkVars, xfer_ssh, pollVars, fileVars, proc,
                   proc_exit, loopVars, outVars, callVars>>

ProcExit ==
    /\ proc = "running"
    /\ proc' = "exited"
    /\ \E c \in ExitCodes : proc_exit' = c
    /\ UNCHANGED <<pc, reqVars, chkVars, xfer_ssh, pollVars, fileVars, emitted,
                   emits, loopVars, outVars, callVars>>

----------------------------------------------------------------------------
Next ==
    \/ IndexGet
    \/ IndexPost
    \/ ChkConnect
    \/ ChkWhoowns(WhoownsOutputs)
    \/ ChkGrep(GrepOutputs)
    \/ ChkClose
    \/ IdxGate
    \/ XTrigger
    \/ XPoll
    \/ XPollExit
    \/ XPollDone
    \/ XDownload
    \/ XConnect
    \/ XSftp
    \/ XPut
    \/ XExec
    \/ XRecv
    \/ XExitReady
    \/ XExitStatus
    \/ ProcEmit
    \/ ProcExit

Spec == Init /\ [][Next]_vars

----------------------------------------------------------------------------
(* The classification of check_destination_account on every username and   *)
(* every pair of lookup outputs of at most MaxLen characters: the state    *)
(* after ssh.connect, then the two lookups and the classification.         *)

InitResolve ==
    /\ pc = "chk_whoowns"
    /\ source_host = <<"h">>
    /\ username \in Strs(MaxLen)
    /\ domain = <<"b">>
    /\ destination_host = <<"h">>
    /\ overwrite = FALSE
    /\ result_username = <<>>
    /\ result_domain = <<>>
    /\ conflict_status = "none"
    /\ check_ssh = "open"
    /\ xfer_ssh = "none"
    /\ elapsed = 0
    /\ download_url = <<>>
    /\ local_file = "absent"
    /\ remote_file = "absent"
    /\ proc = "none"
    /\ proc_exit = -1
    /\ emitted = 0
    /\ emits = 0
    /\ progress_output = 0
    /\ exit_status = -1
    /\ result = NoResult
    /\ response = "none"
    /\ pipelineCalls = 0
    /\ triggerCalls = 0
    /\ poll_seen = {}
    /\ downloadCalls = 0
    /\ uploadCalls = 0
    /\ restoreCalls = 0
    /\ sshConnects = 1
    /\ lookup_failed = FALSE
    /\ trigger_status = 0
    /\ xfer_op = NoOp
    /\ exc_stage = "none"

NextResolve ==
    \/ ChkWhoowns(Strs(MaxLen))
    \/ ChkGrep(Strs(MaxLen))
    \/ ChkClose

SpecResolve == InitResolve /\ [][NextResolve]_vars

----------------------------------------------------------------------------
(* The restore stage on its own: the state after a successful upload, then *)
(* the restore command and the read loop of lines 145-170.  The worker     *)
(* that runs transfer_account keeps taking steps (weak fairness); nothing  *)
(* obliges the remote process to write or to exit.                         *)

InitRestore ==
    /\ pc = "x_exec"
    /\ source_host = <<"h">>
    /\ username \in Usernames
    /\ domain \in Domains
    /\ destination_host = <<"h">>
    /\ overwrite \in BOOLEAN
    /\ result_username = <<>>
    /\ result_domain = <<>>
    /\ conflict_status = "no_conflict"
    /\ check_ssh = "closed"
    /\ xfer_ssh = "open"
    /\ elapsed = 0
    /\ download_url = <<"s", "/", "f">>
    /\ local_file = "complete"
    /\ remote_file = "complete"
    /\ proc = "none"
    /\ proc_exit = -1
    /\ emitted = 0
    /\ emits = 0
    /\ progress_output = 0
    /\ exit_status = -1
    /\ result = NoResult
    /\ response = "none"
    /\ pipelineCalls = 1
    /\ triggerCalls = 1
    /\ poll_seen = {}
    /\ downloadCalls = 1
    /\ uploadCalls = 1
    /\ restoreCalls = 0
    /\ sshConnects = 2
    /\ lookup_failed = FALSE
    /\ trigger_status = HttpOk
    /\ xfer_op = Op("put", remote_backup_path(download_url))
    /\ exc_stage = "none"

Worker == XExec \/ XRecv \/ XExitReady \/ XExitStatus

NextRestore ==
    \/ XExec
    \/ XRecv
    \/ XExitReady
    \/ XExitStatus
    \/ ProcEmit
    \/ ProcExit

SpecRestore == InitRestore /\ [][NextRestore]_vars /\ WF_vars(Worker)

----------------------------------------------------------------------------
(* Several requests served at the same time (one worker each, as under a   *)
(* threaded or multi-process WSGI server), from the end of polling to the  *)
(* upload, lines 107-141.  Here pc and download_url hold one value per     *)
(* request, local_file is the directory /home of the machine running the   *)
(* app (one file per path) and remote_file is what each request's          *)
(* sftp.put sent.  A file is the set of download URLs whose bytes it       *)
(* holds; the other variables keep their initial values.                   *)

Reqs == 1..NumReqs

\* download references of the concurrent requests: two with the same
\* basename on different hosts, one with another basename
ConcUrls == {<<"s", "/", "f">>, <<"t", "/", "f">>, <<"s", "/", "g">>}

ConcPaths == {backup_local_path(u) : u \in ConcUrls}

NoFile == [exists |-> FALSE, data |-> {}]

concRest == <<reqVars, chkVars, xfer_ssh, trigger_status, elapsed, poll_seen,
              procVars, loopVars, outVars, callVars>>

InitConcurrent ==
    /\ pc = [r \in Reqs |-> "x_poll"]
    /\ download_url = [r \in Reqs |-> <<>>]
    /\ local_file = [p \in ConcPaths |-> NoFile]
    /\ remote_file = [r \in Reqs |-> NoFile]
    /\ source_host = <<>>
    /\ username = <<>>
    /\ domain = <<>>
    /\ destination_host = <<>>
    /\ overwrite = FALSE
    /\ result_username = <<>>
    /\ result_domain = <<>>
    /\ conflict_status = "none"
    /\ check_ssh = "none"
    /\ xfer_ssh = "none"
    /\ elapsed = 0
    /\ proc = "none"
    /\ proc_exit = -1
    /\ emitted = 0
    /\ emits = 0
    /\ progress_output = 0
    /\ exit_status = -1
    /\ result = NoResult
    /\ response = "none"
    /\ pipelineCalls = 0
    /\ triggerCalls = 0
    /\ poll_seen = {}
    /\ downloadCalls = 0
    /\ uploadCalls = 0
    /\ restoreCalls = 0
    /\ sshConnects = 0
    /\ lookup_failed = FALSE
    /\ trigger_status = 0
    /\ xfer_op = NoOp
    /\ exc_stage = "none"

\* a poll of request r yields a download_url, lines 107-110
ConcPollReady(r) ==
    /\ pc[r] = "x_poll"
    /\ \E url \in ConcUrls : download_url' = [download_url EXCEPT ![r] = url]
    /\ pc' = [pc EXCEPT ![r] = "x_download"]
    /\ UNCHANGED <<local_file, remote_file, concRest>>

\* open(backup_local_path, 'wb') creates or truncates the file, line 126;
\* a failed GET ends the request, lines 122-125
ConcOpen(r) ==
    /\ pc[r] = "x_download"
    /\ \/ /\ local_file' =
                [local_file EXCEPT ![backup_local_path(download_url[r])] =
                    [exists |-> TRUE, data |-> {}]]
          /\ pc' = [pc EXCEPT ![r] = "x_write"]
       \/ /\ pc' = [pc EXCEPT ![r] = "done"]
          /\ UNCHANGED local_file
    /\ UNCHANGED <<download_url, remote_file, concRest>>

\* the body is written through the file object of request r, lines 127-129
ConcWrite(r) ==
    /\ pc[r] = "x_write"
    /\ local_file' =
          [local_file EXCEPT ![backup_local_path(download_url[r])] =
              [exists |-> TRUE, data |-> @.data \cup {download_url[r]}]]
    /\ pc' = [pc EXCEPT ![r] = "x_put"]
    /\ UNCHANGED <<download_url, remote_file, concRest>>

\* sftp.put sends the file found at backup_local_path, line 141
ConcPut(r) ==
    /\ pc[r] = "x_put"
    /\ remote_file' =
          [remote_file EXCEPT ![r] =
              local_file[backup_local_path(download_url[r])]]
    /\ pc' = [pc EXCEPT ![r] = "done"]
    /\ UNCHANGED <<download_url, local_file, concRest>>

NextConcurrent ==
    \E r \in Reqs :
        \/ ConcPollReady(r)
        \/ ConcOpen(r)
        \/ ConcWrite(r)
        \/ ConcPut(r)

SpecConcurrent == InitConcurrent /\ [][NextConcurrent]_vars

----------------------------------------------------------------------------
(* Properties *)

Done == pc = "done"

\* the conflict check let the request through, as the design intends it
Cleared ==
    \/ conflict_status = "no_conflict"
    \/ conflict_status = "overwrite_allowed" /\ overwrite

\* the conflict check stops the request, lines 198-206
Stopped ==
    \/ conflict_status = "connection_error"
    \/ conflict_status = "username_conflict"
    \/ conflict_status = "overwrite_allowed" /\ ~overwrite

NoRemoteMutation ==
    /\ triggerCalls = 0
    /\ downloadCalls = 0
    /\ uploadCalls = 0
    /\ restoreCalls = 0

\* C1: an upload or a restore happens only when the conflict check returned
\* no_conflict, or overwrite_allowed with the overwrite box ticked; after
\* username_conflict or domain_conflict there is no backup trigger, upload
\* or restore.
C1_MutationOnlyWhenCleared ==
    /\ (uploadCalls > 0 \/ restoreCalls > 0) => Cleared
    /\ conflict_status \in {"username_conflict", "domain_conflict"}
          => NoRemoteMutation

\* C2: after connection_error, username_conflict, or overwrite_allowed
\* without the overwrite box, transfer_account is never called: index answers
\* with a failure from the gate and nothing is triggered, polled, downloaded,
\* uploaded or restored.
C2_StoppedNeverTransfers ==
    Stopped =>
        /\ pipelineCalls = 0
        /\ NoRemoteMutation
        /\ elapsed = 0
        /\ pc \in {"idx_gate", "done"}
        /\ result = NoResult
        /\ Done => response = BlockedResponse(conflict_status)

C2_Witness ==
    /\ Done
    /\ conflict_status = "username_conflict"
    /\ response = "flash_username_conflict"

\* C3: when the conflict check yields no_conflict, or overwrite_allowed with
\* the overwrite box ticked, transfer_account is called exactly once, and no
\* call happens before the conflict check has returned.
C3_ClearedTransfersOnce ==
    /\ pipelineCalls <= 1
    /\ pipelineCalls > 0 =>
          /\ conflict_status # "none"
          /\ pc \notin {"idle", "chk_connect", "chk_whoowns", "chk_grep",
                        "chk_close", "idx_gate"}
    /\ Cleared => IF pc = "idx_gate" THEN pipelineCalls = 0
                  ELSE pipelineCalls = 1

C3_Witness ==
    /\ Done
    /\ conflict_status = "overwrite_allowed"
    /\ overwrite
    /\ pipelineCalls = 1

\* the text rd holds the text u at some position
HoldsText(rd, u) ==
    \E i \in 1..(Len(rd) + 1) :
        \A k \in 1..Len(u) : i + k - 1 <= Len(rd) /\ rd[i + k - 1] = u[k]

Classified == pc = "idx_gate" /\ check_ssh = "closed"

\* C4: the classification returns overwrite_allowed when the username is
\* found, a domain record is found and the record holds the username;
\* username_conflict when both are found and the record does not hold the
\* username; domain_conflict when only a domain record is found; no_conflict
\* otherwise, also when the username is found and no domain record is.
C4_Classification ==
    Classified =>
        LET uf == result_username # <<>>
            df == result_domain # <<>>
            has == HoldsText(result_domain, username)
        IN  /\ (uf /\ df /\ has) => conflict_status = "overwrite_allowed"
            /\ (uf /\ df /\ ~has) => conflict_status = "username_conflict"
            /\ (~uf /\ df) => conflict_status = "domain_conflict"
            /\ ~df => conflict_status = "no_conflict"

C4_Witness ==
    /\ Classified
    /\ conflict_status = "username_conflict"
    /\ username # <<>>
    /\ Len(result_domain) > Len(username)

Timeout == [success |-> FALSE,
            progress |-> Literal("Backup file was not ready in time.")]

\* the polling loop was entered and left without a download_url
NoReadyPoll == Done /\ elapsed > 0 /\ download_url = <<>>

\* C5: the polling loop makes at most timeout/interval polls, and a run in
\* which no poll yields a download_url ends with the "not ready in time"
\* failure, with no download, upload or restore.
C5_NoReadyMeansTimeout ==
    /\ elapsed <= timeout
    /\ elapsed % interval = 0
    /\ NoReadyPoll =>
          /\ result = Timeout
          /\ downloadCalls = 0
          /\ uploadCalls = 0
          /\ restoreCalls = 0

\* what the code does guarantee: the loop is bounded, and a run whose polls
\* all return a response (of any status) without a download_url times out
\* after exactly timeout/interval polls
PollsReturnedMeansTimeout ==
    /\ elapsed <= timeout
    /\ (NoReadyPoll /\ result.progress.kind # "exception") =>
          /\ result = Timeout
          /\ elapsed = timeout
          /\ downloadCalls = 0 /\ uploadCalls = 0 /\ restoreCalls = 0

\* the restore command has ended with a non-zero exit code
RestoreFailed == Done /\ proc = "exited" /\ proc_exit # 0

\* the transcript p holds the n bytes captured from the restore process
HoldsCaptured(p, n) == n = 0 \/ (p.kind = "progress_output" /\ p.n = n)

C7_SuccessIffAllStages ==
    /\ result.success =>
          /\ Done
          /\ triggerCalls = 1
          /\ download_url # <<>>
          /\ downloadCalls = 1
          /\ local_file = "complete"
          /\ uploadCalls = 1
          /\ remote_file = "complete"
          /\ restoreCalls = 1
          /\ proc = "exited"
          /\ proc_exit = 0
          /\ exit_status = 0
    /\ (Done /\ remote_file = "complete" /\ exit_status = 0) =>
          /\ result.success
          /\ response = "progress_page"

C7_Witness ==
    /\ Done
    /\ result.success
    /\ exit_status = 0
    /\ response = "progress_page"

Posted == pc # "idle" /\ response # "index_page"

\* C8: a POST whose username, domain or host is empty is answered with a
\* validation error and makes no SSH connection and no HTTP request.
C8_EmptyFieldRejected ==
    (Posted /\ (username = <<>> \/ domain = <<>> \/ source_host = <<>>
                \/ destination_host = <<>>)) =>
        /\ sshConnects = 0
        /\ triggerCalls = 0
        /\ elapsed = 0
        /\ downloadCalls = 0
        /\ Done => response = "validation_error"

\* C9: once the pipeline has ended, the local file written by the download
\* does not exist.
C9_ArtifactRemoved == Done => local_file = "absent"

\* C10: the SSH session of check_destination_account is closed when the
\* function has returned, and the SSH session of transfer_account is closed
\* when the pipeline has ended.
C10_SessionsClosed ==
    /\ pc \notin {"idle", "chk_connect", "chk_whoowns", "chk_grep",
                  "chk_close"} => check_ssh # "open"
    /\ Done => xfer_ssh # "open"

TriggerFailed == [success |-> FALSE,
                  progress |-> Literal("Failed to trigger backup on source server.")]

\* C11: a pipeline run makes the triggering GET of line 85 exactly once; a
\* response to it other than 200 ends the run with the "Failed to trigger"
\* failure, with no second trigger and no poll, download, upload or restore.
C11_TriggerOnceAndFatal ==
    /\ triggerCalls <= 1
    /\ (pipelineCalls = 1 /\ pc # "x_trigger") => triggerCalls = 1
    /\ trigger_status \notin {0, HttpOk} =>
          /\ Done
          /\ result = TriggerFailed
          /\ triggerCalls = 1
          /\ xfer_op = Op("GET", backup_api_url(source_host))
          /\ elapsed = 0
          /\ poll_seen = {}
          /\ download_url = <<>>
          /\ downloadCalls = 0
          /\ uploadCalls = 0
          /\ restoreCalls = 0
          /\ xfer_ssh = "none"

C11_Witness ==
    /\ Done
    /\ trigger_status = 500
    /\ result = TriggerFailed

\* C12: a poll that errors (a status other than 200, a request that raises,
\* a body that cannot be parsed) does not end the polling loop: as long as no
\* poll has yielded a download_url the pipeline is still polling, or it has
\* timed out at the ceiling.
C12_PollErrorsSoftRetried ==
    (download_url = <<>> /\ poll_seen \cap {"non200", "raised"} # {}) =>
        \/ pc \in {"x_poll", "x_poll_done"}
        \/ Done /\ result = Timeout /\ elapsed = timeout

StageOf(p) ==
    CASE p = "x_trigger" -> 1
      [] p \in {"x_poll", "x_poll_done"} -> 2
      [] p = "x_download" -> 3
      [] p \in {"x_connect", "x_sftp", "x_put"} -> 4
      [] p \in {"x_exec", "x_recv", "x_exit_ready", "x_exit_status"} -> 5
      [] p = "done" -> 6
      [] OTHER -> 0

StageInv ==
    /\ triggerCalls <= 1 /\ downloadCalls <= 1
    /\ uploadCalls <= 1 /\ restoreCalls <= 1
    /\ StageOf(pc) = 2 => trigger_status = HttpOk
    /\ (StageOf(pc) = 3 \/ downloadCalls > 0) =>
          trigger_status = HttpOk /\ download_url # <<>>
    /\ (StageOf(pc) = 4 \/ uploadCalls > 0) => local_file = "complete"
    /\ (StageOf(pc) = 5 \/ restoreCalls > 0) => remote_file = "complete"

StageStep ==
    /\ StageOf(pc) >= 1 =>
          StageOf(pc') \in {StageOf(pc), StageOf(pc) + 1, 6}
    /\ Done => UNCHANGED <<pc, result, response, fileVars, xfer_ssh, callVars,
                           pollVars, loopVars>>

\* C13: the stages of the pipeline are passed in the order trigger, poll,
\* download, upload, restore, end: each step stays in its stage, enters the
\* next one or ends the run; a stage is entered only when the one before it
\* succeeded; trigger, download, upload and restore are attempted at most once;
\* once the run has ended the pipeline does nothing more.
C13_StagesInOrder == []StageInv /\ [][StageStep]_vars

C13_Witness ==
    /\ Done
    /\ uploadCalls = 1
    /\ restoreCalls = 1
    /\ exit_status = 1

\* C14: when the pipeline has read the exit status, the transcript it returns
\* is everything the restore process wrote before it exited.
C14_TranscriptComplete ==
    (Done /\ exit_status # -1) => result.progress = Captured(emitted)

\* the stage a result of transfer_account names: the three literal messages
\* and the restore transcript belong to one stage each, while the text
\* "Exception occurred: " + str(e) is the same for every stage
StageNamed(r) ==
    CASE r.progress = Literal("Failed to trigger backup on source server.")
            -> "trigger"
      [] r.progress = Literal("Backup file was not ready in time.") -> "poll"
      [] r.progress = Literal("Failed to download backup file.") -> "download"
      [] r.progress.kind = "progress_output" -> "restore"
      [] OTHER -> "none"

\* what the except clause does guarantee
ExceptionsBecomeFailures ==
    exc_stage # "none" =>
        /\ Done
        /\ ~result.success
        /\ result.progress.kind = "exception"
        /\ result.progress.text \in ExcTexts
        /\ response = "flash_transfer_failed"

\* C15: an exception raised in a stage of the pipeline is turned into a
\* failed result that carries the exception text and names that stage.
C15_ExceptionNamesStage ==
    /\ ExceptionsBecomeFailures
    /\ exc_stage # "none" => StageNamed(result) = exc_stage

\* C18: when the session cannot be established or a lookup fails, whether
\* the call raises or the command fails on the destination, the probe
\* returns connection_error.
C18_FailedLookupIsConnectionError ==
    conflict_status # "none" =>
        /\ check_ssh # "closed" => conflict_status = "connection_error"
        /\ lookup_failed => conflict_status = "connection_error"

\* C19: the two sessions to the destination are never open together: the
\* pipeline has a session only after the conflict check closed its own, and
\* when the conflict check returned with its session open the pipeline is not
\* called.
C19_OneDestinationSession ==
    /\ ~(check_ssh = "open" /\ xfer_ssh = "open")
    /\ xfer_ssh # "none" => check_ssh = "closed"
    /\ (check_ssh = "open" /\ conflict_status # "none") =>
          /\ conflict_status = "connection_error"
          /\ pipelineCalls = 0
          /\ pc \in {"idx_gate", "done"}
    /\ pipelineCalls > 0 => check_ssh = "closed"

C19_Witness ==
    /\ check_ssh = "closed"
    /\ xfer_ssh = "open"
    /\ pc = "x_recv"

\* C20: every remote operation of the pipeline is built from the source
\* host, the destination host and the download_url the source returned, and
\* from nothing else of the request: not from its username, not from its
\* domain.
C20_PipelineIgnoresAccount ==
    LET path == <<"/home/">> \o Basename(download_url)
    IN  xfer_op \in
          { [op |-> "none", arg |-> <<>>],
            [op |-> "GET",
             arg |-> <<"https://">> \o source_host
                       \o <<":2083/execute/Backup/fullbackup?api.version=1">>],
            [op |-> "GET", arg |-> download_url],
            [op |-> "connect", arg |-> destination_host],
            [op |-> "put", arg |-> path],
            [op |-> "exec", arg |-> <<"/scripts/restorepkg ">> \o path] }

C20_Witness ==
    /\ username # <<>>
    /\ domain # <<>>
    /\ conflict_status = "domain_conflict"
    /\ xfer_op.op = "exec"
    /\ Done /\ result.success

InReadLoop == pc \in {"x_recv", "x_exit_ready"}

\* C16: a run that has started the restore command ends, also when the
\* remote process never reports an exit status.
C16_RestoreTerminates == InReadLoop ~> Done

\* C17: with several requests at the same time, the file a request has
\* written stays its own until it is uploaded, and what the request uploads
\* is exactly what it downloaded.
C17_ArtifactIsolated ==
    \A r \in Reqs :
        /\ pc[r] = "x_put" =>
              local_file[backup_local_path(download_url[r])] =
                  [exists |-> TRUE, data |-> {download_url[r]}]
        /\ remote_file[r].exists => remote_file[r].data = {download_url[r]}

====
